---- MODULE Spec2Model ----
(***************************************************************************)
(* A model of blitz/seccomp-example: the seccomp filter program that the   *)
(* SeccompChild constructor assembles from its whitelist entries, the way  *)
(* the kernel's classic-BPF engine evaluates it on a system call, and the  *)
(* fork / prepare / run / wait lifecycle of ForkedChild.                   *)
(***************************************************************************)
EXTENDS Integers, Sequences, FiniteSets, TLC

(***************************************************************************)
(* Bounds of the model.                                                    *)
(***************************************************************************)
\* The longest list of whitelist entries handed to the constructor.
MaxRules == 2
\* The number of values of a 32-bit word in the model (it stands for 2^32,
\* which TLC's integers cannot hold): a 64-bit value is hi * Word32 + lo.
Word32 == 1024
\* The most children one controller forks in a behaviour.
MaxRuns == 2

(***************************************************************************)
(* Constants of the kernel ABI the source uses.                            *)
(***************************************************************************)
\* BPF_LD | BPF_W | BPF_ABS
BPF_LD_W_ABS == 32
\* BPF_JMP | BPF_JEQ | BPF_K
BPF_JMP_JEQ_K == 21
\* BPF_RET | BPF_K
BPF_RET_K == 6
SECCOMP_RET_KILL == 0
SECCOMP_RET_ALLOW == 2147418112
\* The machine part (EM_X86_64) of AUDIT_ARCH_X86_64; its flag bits
\* 0xC0000000 lie outside TLC's integers and are the same for every value here.
AUDIT_ARCH_X86_64 == 62
\* The machine part (EM_386) of AUDIT_ARCH_I386: what a 32-bit entry reports.
AUDIT_ARCH_I386 == 3
\* offsetof(struct seccomp_data, nr / arch / args)
OFF_nr == 0
OFF_arch == 4
OFF_args == 16
\* sizeof(uint32_t)
SIZEOF_uint32_t == 4
SYS_write == 1
SYS_exit == 60
SYS_exit_group == 231
STDOUT_FILENO == 1

\* One sock_filter, as the BPF_STMT and BPF_JUMP initialisers lay it out.
BPF_STMT(code, k) == [code |-> code, jt |-> 0, jf |-> 0, k |-> k]

BPF_JUMP(code, k, jt, jf) == [code |-> code, jt |-> jt, jf |-> jf, k |-> k]

(***************************************************************************)
(* The whitelist entries and the program the constructor builds.           *)
(***************************************************************************)
\* static_cast<uint32_t>(x) of a 64-bit x: the low word.
cast_uint32(x) == x % Word32

\* The shift forgotten: the high-word comparison sees the low word again.
shift_right_32_Forgotten(x) == x

\* x >> 32 of a 64-bit x: the high word.
shift_right_32(x) == x \div Word32

SeccompWhitelist(sysnr) == [type |-> "SeccompWhitelist", sysnr_ |-> sysnr, arg0_ |-> 0]

SeccompWhitelistWithArg(sysnr, arg0) ==
    [type |-> "SeccompWhitelistWithArg", sysnr_ |-> sysnr, arg0_ |-> arg0]

\* The jump's branches exchanged: allow on a mismatch, skip on a match.
Whitelist_push_into_Swapped(v, e) ==
    v \o << BPF_STMT(BPF_LD_W_ABS, OFF_nr),
            BPF_JUMP(BPF_JMP_JEQ_K, e.sysnr_, 1, 0),
            BPF_STMT(BPF_RET_K, SECCOMP_RET_ALLOW) >>

\* SeccompWhitelist::push_into
Whitelist_push_into(v, e) ==
    v \o << BPF_STMT(BPF_LD_W_ABS, OFF_nr),
            BPF_JUMP(BPF_JMP_JEQ_K, e.sysnr_, 0, 1),
            BPF_STMT(BPF_RET_K, SECCOMP_RET_ALLOW) >>

\* A mismatch of the number skips five, not six: it lands on the block's own
\* kill instead of behind the block.
WhitelistWithArg_push_into_ShortSkip(v, e) ==
    v \o << BPF_STMT(BPF_LD_W_ABS, OFF_nr),
            BPF_JUMP(BPF_JMP_JEQ_K, e.sysnr_, 0, 5),
            BPF_STMT(BPF_LD_W_ABS, OFF_args),
            BPF_JUMP(BPF_JMP_JEQ_K, cast_uint32(e.arg0_), 0, 3),
            BPF_STMT(BPF_LD_W_ABS, SIZEOF_uint32_t + OFF_args),
            BPF_JUMP(BPF_JMP_JEQ_K, cast_uint32(shift_right_32(e.arg0_)), 0, 1),
            BPF_STMT(BPF_RET_K, SECCOMP_RET_ALLOW),
            BPF_STMT(BPF_RET_K, SECCOMP_RET_KILL) >>

\* A mismatch of the argument skips behind the block, to the next entry.
WhitelistWithArg_push_into_FallsThrough(v, e) ==
    v \o << BPF_STMT(BPF_LD_W_ABS, OFF_nr),
            BPF_JUMP(BPF_JMP_JEQ_K, e.sysnr_, 0, 6),
            BPF_STMT(BPF_LD_W_ABS, OFF_args),
            BPF_JUMP(BPF_JMP_JEQ_K, cast_uint32(e.arg0_), 0, 4),
            BPF_STMT(BPF_LD_W_ABS, SIZEOF_uint32_t + OFF_args),
            BPF_JUMP(BPF_JMP_JEQ_K, cast_uint32(shift_right_32(e.arg0_)), 0, 2),
            BPF_STMT(BPF_RET_K, SECCOMP_RET_ALLOW),
            BPF_STMT(BPF_RET_K, SECCOMP_RET_KILL) >>

\* SeccompWhitelistWithArg::push_into
WhitelistWithArg_push_into(v, e) ==
    v \o << BPF_STMT(BPF_LD_W_ABS, OFF_nr),
            BPF_JUMP(BPF_JMP_JEQ_K, e.sysnr_, 0, 6),
            BPF_STMT(BPF_LD_W_ABS, OFF_args),
            BPF_JUMP(BPF_JMP_JEQ_K, cast_uint32(e.arg0_), 0, 3),
            BPF_STMT(BPF_LD_W_ABS, SIZEOF_uint32_t + OFF_args),
            BPF_JUMP(BPF_JMP_JEQ_K, cast_uint32(shift_right_32(e.arg0_)), 0, 1),
            BPF_STMT(BPF_RET_K, SECCOMP_RET_ALLOW),
            BPF_STMT(BPF_RET_K, SECCOMP_RET_KILL) >>

\* first.push_into(seccomp_filter), by the static type of the entry.
push_into(v, e) ==
    IF e.type = "SeccompWhitelist"
        THEN Whitelist_push_into(v, e)
        ELSE WhitelistWithArg_push_into(v, e)

RECURSIVE extend_all(_, _)
\* SeccompChild::extend_all: every entry pushes itself, in the order given.
\* The list is taken by halves rather than head first, and the first half is
\* complete (the vector only grows) before the second is pushed: the same
\* vector, built with an evaluation that stays shallow for a long list.
extend_all(v, rest) ==
    IF rest = << >> THEN v
    ELSE IF Len(rest) = 1 THEN push_into(v, Head(rest))
    ELSE LET half == Len(rest) \div 2
             done == extend_all(v, SubSeq(rest, 1, half))
         IN  IF Len(done) >= Len(v)
                 THEN extend_all(done, SubSeq(rest, half + 1, Len(rest)))
                 ELSE done

\* The architecture check with its branches exchanged.
seccomp_filter_init_Swapped ==
    << BPF_STMT(BPF_LD_W_ABS, OFF_arch),
       BPF_JUMP(BPF_JMP_JEQ_K, AUDIT_ARCH_X86_64, 0, 1),
       BPF_STMT(BPF_RET_K, SECCOMP_RET_KILL) >>

\* The member initialiser of seccomp_filter: the architecture check.
seccomp_filter_init ==
    << BPF_STMT(BPF_LD_W_ABS, OFF_arch),
       BPF_JUMP(BPF_JMP_JEQ_K, AUDIT_ARCH_X86_64, 1, 0),
       BPF_STMT(BPF_RET_K, SECCOMP_RET_KILL) >>

\* The trailing kill left out.
Finalize_Omitted(v) == v

\* "Finalize filter": the trailing kill.
Finalize(v) == Append(v, BPF_STMT(BPF_RET_K, SECCOMP_RET_KILL))

\* The trailing kill pushed before the entries instead of after them.
SeccompChild_KillFirst(es) ==
    extend_all(Finalize(Append(seccomp_filter_init, BPF_STMT(BPF_LD_W_ABS, OFF_nr))), es)

\* SeccompChild::SeccompChild(entries...): the value of seccomp_filter after it.
SeccompChild(es) ==
    Finalize(extend_all(Append(seccomp_filter_init, BPF_STMT(BPF_LD_W_ABS, OFF_nr)), es))

\* A mismatch skips two instructions, not one.
BPF_SYS_WHITELIST_SkipsTwo(nr) ==
    << BPF_JUMP(BPF_JMP_JEQ_K, nr, 0, 2),
       BPF_STMT(BPF_RET_K, SECCOMP_RET_ALLOW) >>

\* BPF_SYS_WHITELIST(nr) of main.cpp: compare, then allow.
BPF_SYS_WHITELIST(nr) ==
    << BPF_JUMP(BPF_JMP_JEQ_K, nr, 0, 1),
       BPF_STMT(BPF_RET_K, SECCOMP_RET_ALLOW) >>

\* The static program of main.cpp.
sys_filter ==
    << BPF_STMT(BPF_LD_W_ABS, OFF_arch),
       BPF_JUMP(BPF_JMP_JEQ_K, AUDIT_ARCH_X86_64, 1, 0),
       BPF_STMT(BPF_RET_K, SECCOMP_RET_KILL),
       BPF_STMT(BPF_LD_W_ABS, OFF_nr) >>
    \o BPF_SYS_WHITELIST(SYS_exit)
    \o BPF_SYS_WHITELIST(SYS_exit_group)
    \o << BPF_STMT(BPF_RET_K, SECCOMP_RET_KILL) >>

(***************************************************************************)
(* The kernel's evaluation of a program on one system call.                *)
(***************************************************************************)
\* The 32-bit word of struct seccomp_data at byte offset k (little endian:
\* the low word of args[0] comes first).
LoadWord(d, k) ==
    CASE k = OFF_nr -> d.nr
      [] k = OFF_arch -> d.arch
      [] k = OFF_args -> d.arg0 % Word32
      [] k = OFF_args + SIZEOF_uint32_t -> d.arg0 \div Word32
      [] OTHER -> 0

\* One instruction: m is [pc, A, done, ret]; pc counts from 1.
BpfStep(prog, m, d) ==
    LET ins == prog[m.pc] IN
    CASE ins.code = BPF_LD_W_ABS ->
            [m EXCEPT !.A = LoadWord(d, ins.k), !.pc = m.pc + 1]
      [] ins.code = BPF_JMP_JEQ_K ->
            [m EXCEPT !.pc = m.pc + 1 + (IF m.A = ins.k THEN ins.jt ELSE ins.jf)]
      [] ins.code = BPF_RET_K ->
            [m EXCEPT !.done = TRUE, !.ret = ins.k]

BpfStart == [pc |-> 1, A |-> 0, done |-> FALSE, ret |-> 0]

(***************************************************************************)
(* The state.                                                              *)
(***************************************************************************)
VARIABLES
    state,            \* ForkedChild::state
    child_,           \* ForkedChild::child_
    caller,           \* where the parent's thread is
    procs,            \* the child processes forked so far; the pid is the index
    result,           \* what the last wait_for_child() returned, and for which pid
    privileged,       \* whether the processes hold CAP_SYS_ADMIN
    program,          \* which program is loaded: "SeccompChild" or "sys_filter"
    entries,          \* the whitelist entries the constructor was given
    seccomp_filter,   \* SeccompChild::seccomp_filter (or main.cpp's sys_filter)
    data,             \* the seccomp_data of the system call being filtered
    bpf               \* the filter engine: [pc, A, done, ret], or idle

fvars == << program, entries, seccomp_filter, data, bpf >>

cvars == << state, child_, caller, procs, result, privileged >>

vars == << state, child_, caller, procs, result, privileged,
           program, entries, seccomp_filter, data, bpf >>

NoResult == [pid |-> 0, value |-> 0]

\* The system-call numbers an entry may name, and those a call may carry.
RuleNrs == {SYS_write, SYS_exit_group}

CallNrs == {SYS_write, SYS_exit, SYS_exit_group}

Archs == {AUDIT_ARCH_X86_64, AUDIT_ARCH_I386}

\* 64-bit first arguments of a call: small values, and values that agree with
\* an entry's value in the low word only, in the high word only, or in neither.
Args64 == {0, STDOUT_FILENO, Word32, Word32 + 1, 2 * Word32 + 1}

\* The values an entry compares with: fd 1, a value with only the high word
\* set, and one with both.
RuleArgs == {STDOUT_FILENO, Word32, Word32 + 1}

Rules ==
    {SeccompWhitelist(n) : n \in RuleNrs}
    \cup {SeccompWhitelistWithArg(n, a) : n \in RuleNrs, a \in RuleArgs}

RuleSeqs == UNION {[1 .. n -> Rules] : n \in 0 .. MaxRules}

SeccompData == [nr : CallNrs, arch : Archs, arg0 : Args64]

NoData == [nr |-> 0, arch |-> 0, arg0 |-> 0]

Idle == [pc |-> 0, A |-> 0, done |-> FALSE, ret |-> 0]

\* After construction: a SeccompChild built from some entries, or the static
\* program of main.cpp; no system call has been filtered yet.
InitFilter ==
    /\ \/ /\ program = "SeccompChild"
          /\ entries \in RuleSeqs
          /\ seccomp_filter = SeccompChild(entries)
       \/ /\ program = "sys_filter"
          /\ entries = << >>
          /\ seccomp_filter = sys_filter
    /\ data = NoData
    /\ bpf = Idle
    /\ state = "NOT_STARTED"
    /\ child_ = 0
    /\ caller = "idle"
    /\ procs = << >>
    /\ result = NoResult
    /\ privileged = FALSE

\* The process enters a system call: the engine starts at the first instruction.
SeccompRun(d) ==
    /\ bpf = Idle \/ bpf.done
    /\ data' = d
    /\ bpf' = BpfStart
    /\ UNCHANGED << program, entries, seccomp_filter >>
    /\ UNCHANGED cvars

\* The engine executes the instruction at pc.
BpfExec ==
    /\ bpf # Idle
    /\ ~bpf.done
    /\ bpf.pc \in DOMAIN seccomp_filter
    /\ bpf' = BpfStep(seccomp_filter, bpf, data)
    /\ UNCHANGED << program, entries, seccomp_filter, data >>
    /\ UNCHANGED cvars

NextFilter ==
    \/ \E d \in SeccompData : SeccompRun(d)
    \/ BpfExec

SpecFilter == InitFilter /\ [][NextFilter]_vars

(***************************************************************************)
(* Processes: what the kernel and libc do for the calls the source makes.  *)
(***************************************************************************)
EXIT_FAILURE == 1
\* The signal of a seccomp kill, of abort(), and of an outside kill.
SIGSYS == 31
SIGABRT == 6
SIGKILL == 9
\* The kernel's limit on a filter's length.
BPF_MAXINSNS == 4096
\* The number of values of an unsigned short.
USHRT_RANGE == 65536
SYS_fstat == 5
SYS_mmap == 9
SYS_wait4 == 61
SYS_tgkill == 234

\* How a process ended, as the kernel records it.
NotEnded == [how |-> "running", code |-> 0, sig |-> 0]

Exited(code) == [how |-> "exited", code |-> code % 256, sig |-> 0]

Signaled(sig) == [how |-> "signaled", code |-> 0, sig |-> sig]

\* The signals whose default action also dumps core.
CoreSignals == {SIGSYS, SIGABRT}

\* The status word waitpid() stores: the exit code in bits 8..15, or the
\* signal in bits 0..6 with bit 7 set if core was dumped.
RawStatus(term, core) ==
    IF term.how = "exited"
        THEN term.code * 256
        ELSE term.sig + (IF core THEN 128 ELSE 0)

WIFEXITED(status) == status % 128 = 0

WEXITSTATUS(status) == (status \div 256) % 256

RECURSIVE RunFilter(_, _, _)
\* The engine run to its verdict; a program the engine would run off the end
\* of is one the kernel refuses to install, so that case yields kill here.
RunFilter(prog, m, d) ==
    IF m.done THEN m.ret
    ELSE IF m.pc \notin DOMAIN prog THEN SECCOMP_RET_KILL
    ELSE RunFilter(prog, BpfStep(prog, m, d), d)

\* The kernel's check of a program at installation: a length within the
\* limit, every jump inside the program, a return at the end.
KernelAccepts(prog, len) ==
    /\ len \in 1 .. BPF_MAXINSNS
    /\ len <= Len(prog)
    /\ \A i \in 1 .. len :
            prog[i].code = BPF_JMP_JEQ_K =>
                (i + 1 + prog[i].jt <= len /\ i + 1 + prog[i].jf <= len)
    /\ prog[len].code = BPF_RET_K

\* The verdict on a system call of process c: its filter's, if it has one.
Verdict(c, d) ==
    IF c.filter THEN RunFilter(seccomp_filter, BpfStart, d) ELSE SECCOMP_RET_ALLOW

Call(nr, arg0) == [nr |-> nr, arch |-> AUDIT_ARCH_X86_64, arg0 |-> arg0]

(***************************************************************************)
(* The child's side: child_main, prepare_child, the closure, _exit.        *)
(***************************************************************************)
NoRet == -1

\* A process as fork() creates it.
Forked ==
    [pc |-> "forked", no_new_privs |-> FALSE, filter |-> FALSE, failed |-> "none",
     ran |-> FALSE, called |-> FALSE, ret |-> NoRet, term |-> NotEnded,
     reaped |-> FALSE]

\* The process ends: it stays a zombie until it is waited for.
Terminate(c, term) == [c EXCEPT !.pc = "zombie", !.term = term]

\* die_errno(msg): perror, then exit(EXIT_FAILURE). It is reached only
\* before a filter is installed, so nothing stops its system calls.
die_errno(c, msg) == Terminate([c EXCEPT !.failed = msg], Exited(EXIT_FAILURE))

\* prepare_child() of the base class: the child goes straight to the closure.
child_main_NoPrepare(c) == [c EXCEPT !.pc = "fn"]

\* child_main: prepare_child() first (SeccompChild's override), then fn().
child_main(c) == [c EXCEPT !.pc = "prepare_child"]

\* unsigned short len = seccomp_filter.size()
prog_len(v) == Len(v) % USHRT_RANGE

\* The result of prctl(PR_SET_NO_NEW_PRIVS) left unchecked.
prctl_no_new_privs_Unchecked(c, ok) ==
    IF prog_len(seccomp_filter) # Len(seccomp_filter)
        THEN Terminate(c, Signaled(SIGABRT))
        ELSE [c EXCEPT !.no_new_privs = ok,
                       !.failed = IF ok THEN "none" ELSE "PR_SET_NO_NEW_PRIVS",
                       !.pc = "set_seccomp"]

\* prepare_child up to and including prctl(PR_SET_NO_NEW_PRIVS): the assert
\* on the length, then the call, whose outcome is ok.
prctl_no_new_privs(c, ok) ==
    IF prog_len(seccomp_filter) # Len(seccomp_filter)
        THEN Terminate(c, Signaled(SIGABRT))
        ELSE IF ok
            THEN [c EXCEPT !.no_new_privs = TRUE, !.pc = "set_seccomp"]
            ELSE die_errno(c, "PR_SET_NO_NEW_PRIVS")

\* The result of prctl(PR_SET_SECCOMP) left unchecked.
prctl_seccomp_Unchecked(c, ok) ==
    [c EXCEPT !.filter = ok,
              !.failed = IF ok THEN "none" ELSE "PR_SET_SECCOMP",
              !.pc = "fn"]

\* prctl(PR_SET_SECCOMP, SECCOMP_MODE_FILTER, &prog), whose outcome is ok.
prctl_seccomp(c, ok) ==
    IF ok
        THEN [c EXCEPT !.filter = TRUE, !.pc = "fn"]
        ELSE die_errno(c, "PR_SET_SECCOMP")

\* Whether the kernel can let PR_SET_SECCOMP succeed for process c.
SeccompMaySucceed(c) ==
    /\ c.no_new_privs \/ privileged
    /\ KernelAccepts(seccomp_filter, prog_len(seccomp_filter))

\* A system call of process c: it goes on as next if the filter allows the
\* call, and is killed otherwise.
Syscall(c, d, next) ==
    IF Verdict(c, d) = SECCOMP_RET_ALLOW THEN next ELSE Terminate(c, Signaled(SIGSYS))

\* The closure's value dropped: _exit(0) whatever child_main returned.
ExitCall_IgnoresResult(c, status) ==
    Syscall(c, Call(SYS_exit_group, 0), Terminate(c, Exited(0)))

\* _exit(status): the exit_group system call, passed through the filter.
ExitCall(c, status) == Syscall(c, Call(SYS_exit_group, status), Terminate(c, Exited(status)))

UpdateProc(p, c) == procs' = [procs EXCEPT ![p] = c]

Pids == DOMAIN procs

PrctlNoNewPrivs(p) ==
    /\ procs[p].pc = "prepare_child"
    /\ \E ok \in BOOLEAN : UpdateProc(p, prctl_no_new_privs(procs[p], ok))
    /\ UNCHANGED << state, child_, caller, result, privileged >>
    /\ UNCHANGED fvars

PrctlSeccomp(p) ==
    /\ procs[p].pc = "set_seccomp"
    /\ \E ok \in BOOLEAN :
        /\ ok => SeccompMaySucceed(procs[p])
        /\ UpdateProc(p, prctl_seccomp(procs[p], ok))
    /\ UNCHANGED << state, child_, caller, result, privileged >>
    /\ UNCHANGED fvars

\* fn() is called.
ClosureStart(p) ==
    /\ procs[p].pc = "fn"
    /\ UpdateProc(p, [procs[p] EXCEPT !.ran = TRUE, !.pc = "in_fn"])
    /\ UNCHANGED << state, child_, caller, result, privileged >>
    /\ UNCHANGED fvars

\* The system calls a closure may make.
ClosureCalls ==
    {Call(SYS_write, STDOUT_FILENO), Call(SYS_write, STDOUT_FILENO + 1)}

\* The values a closure may return.
Rets == {0, 257}

\* The closure makes a system call.
ClosureSyscall(p, d) ==
    /\ procs[p].pc = "in_fn"
    /\ UpdateProc(p, Syscall(procs[p], d, [procs[p] EXCEPT !.called = TRUE]))
    /\ UNCHANGED << state, child_, caller, result, privileged >>
    /\ UNCHANGED fvars

\* The closure returns r to child_main, which returns it to run().
ClosureReturn(p, r) ==
    /\ procs[p].pc = "in_fn"
    /\ UpdateProc(p, [procs[p] EXCEPT !.ret = r, !.pc = "exit"])
    /\ UNCHANGED << state, child_, caller, result, privileged >>
    /\ UNCHANGED fvars

\* fn() throws. Nothing in child_main or run() catches, so the exception
\* leaves run() in the child: with a handler in the caller the child goes on
\* in the caller's code; with none, std::terminate aborts it (abort raises
\* SIGABRT with a system call of its own, which the filter judges).
closure_throws(c, handled) ==
    IF handled
        THEN [c EXCEPT !.pc = "after_run"]
        ELSE Syscall(c, Call(SYS_tgkill, SIGABRT), Terminate(c, Signaled(SIGABRT)))

ClosureThrow(p) ==
    /\ procs[p].pc = "in_fn"
    /\ \E handled \in BOOLEAN : UpdateProc(p, closure_throws(procs[p], handled))
    /\ UNCHANGED << state, child_, caller, result, privileged >>
    /\ UNCHANGED fvars

\* The child, in the caller's code, destroys its copy of the controller: the
\* copy's state is STARTED, so ~ForkedChild calls wait_for_child(), whose
\* waitpid is a system call; if the filter lets it pass the child leaves
\* through the caller's normal exit.
child_destroys(c) ==
    Syscall(c, Call(SYS_wait4, 0), ExitCall(c, 0))

ChildDestroy(p) ==
    /\ procs[p].pc = "after_run"
    /\ UpdateProc(p, child_destroys(procs[p]))
    /\ UNCHANGED << state, child_, caller, result, privileged >>
    /\ UNCHANGED fvars

\* run() in the child: _exit(child_main(fn)).
ChildExit(p) ==
    /\ procs[p].pc = "exit"
    /\ UpdateProc(p, ExitCall(procs[p], procs[p].ret))
    /\ UNCHANGED << state, child_, caller, result, privileged >>
    /\ UNCHANGED fvars

\* A signal from outside kills a child that is still running.
OutsideKill(p) ==
    /\ procs[p].pc # "zombie"
    /\ UpdateProc(p, Terminate(procs[p], Signaled(SIGKILL)))
    /\ UNCHANGED << state, child_, caller, result, privileged >>
    /\ UNCHANGED fvars

(***************************************************************************)
(* The parent's side: run, wait_for_child, the destructor.                 *)
(***************************************************************************)
\* The state run() leaves when it is entered in state st.
run_state(st) == "STARTED"

\* A failed fork() reported to the caller instead: run() returns.
Run_ForkFailureReturns ==
    /\ caller = "idle"
    /\ Len(procs) < MaxRuns
    /\ state' = run_state(state)
    /\ \/ /\ procs' = Append(procs, child_main(Forked))
          /\ child_' = Len(procs) + 1
          /\ caller' = "idle"
       \/ /\ procs' = procs
          /\ child_' = -1
          /\ caller' = "idle"
    /\ UNCHANGED << result, privileged >>
    /\ UNCHANGED fvars

\* run(fn): the state is set, then fork() succeeds, the child enters
\* child_main and the parent records its pid, or fork() fails and die_errno
\* ends the parent.
Run ==
    /\ caller = "idle"
    /\ Len(procs) < MaxRuns
    /\ state' = run_state(state)
    /\ \/ /\ procs' = Append(procs, child_main(Forked))
          /\ child_' = Len(procs) + 1
          /\ caller' = "idle"
       \/ /\ procs' = procs
          /\ child_' = -1
          /\ caller' = "exited"
    /\ UNCHANGED << result, privileged >>
    /\ UNCHANGED fvars

\* WIFEXITED(status) ? WEXITSTATUS(status) : -1, with the test left out.
wait_status_Unchecked(status) == WEXITSTATUS(status)

\* WIFEXITED(status) ? WEXITSTATUS(status) : -1
wait_status(status) == IF WIFEXITED(status) THEN WEXITSTATUS(status) ELSE -1

\* The assert left out: the state is set whatever it was.
WaitEnter_NoAssert(next) ==
    /\ caller' = next
    /\ state' = "FINISHED"

\* wait_for_child() up to waitpid(): the assert, then the state is set.
WaitEnter(next) ==
    IF state # "STARTED"
        THEN /\ caller' = "aborted"
             /\ state' = state
        ELSE /\ caller' = next
             /\ state' = "FINISHED"

\* The caller calls wait_for_child().
WaitForChild ==
    /\ caller = "idle"
    /\ WaitEnter("waiting")
    /\ UNCHANGED << child_, procs, result, privileged >>
    /\ UNCHANGED fvars

\* waitpid(child_) returns once the child has ended; wait_for_child()
\* decodes the status and returns.
WaitReturn ==
    /\ caller \in {"waiting", "dtor_waiting"}
    /\ child_ \in Pids
    /\ procs[child_].pc = "zombie"
    /\ ~procs[child_].reaped
    /\ UpdateProc(child_, [procs[child_] EXCEPT !.reaped = TRUE])
    /\ \E core \in (IF procs[child_].term.sig \in CoreSignals THEN BOOLEAN ELSE {FALSE}) :
            result' = [pid |-> child_,
                       value |-> wait_status(RawStatus(procs[child_].term, core))]
    /\ caller' = IF caller = "waiting" THEN "idle" ELSE "destroyed"
    /\ UNCHANGED << state, child_, privileged >>
    /\ UNCHANGED fvars

\* ~ForkedChild(): in state STARTED it calls wait_for_child().
Destroy ==
    /\ caller = "idle"
    /\ IF state = "STARTED"
        THEN WaitEnter("dtor_waiting")
        ELSE /\ caller' = "destroyed"
             /\ state' = state
    /\ UNCHANGED << child_, procs, result, privileged >>
    /\ UNCHANGED fvars

\* The entries of main().
MainEntries ==
    << SeccompWhitelist(SYS_exit_group),
       SeccompWhitelist(SYS_exit),
       SeccompWhitelistWithArg(SYS_write, STDOUT_FILENO),
       SeccompWhitelistWithArg(SYS_fstat, STDOUT_FILENO),
       SeccompWhitelistWithArg(SYS_mmap, 0) >>

\* The rule lists of the controllers whose lifecycle is followed: none,
\* main's, and one allowing exit_group with status 0 only.
Policies ==
    { << >>,
      MainEntries,
      << SeccompWhitelistWithArg(SYS_exit_group, 0),
         SeccompWhitelistWithArg(SYS_write, STDOUT_FILENO) >> }

\* A SeccompChild after construction, not yet run.
Init ==
    /\ program = "SeccompChild"
    /\ entries \in Policies
    /\ seccomp_filter = SeccompChild(entries)
    /\ data = NoData
    /\ bpf = Idle
    /\ state = "NOT_STARTED"
    /\ child_ = 0
    /\ caller = "idle"
    /\ procs = << >>
    /\ result = NoResult
    /\ privileged \in BOOLEAN

Next ==
    \/ Run
    \/ WaitForChild
    \/ WaitReturn
    \/ Destroy
    \/ \E p \in Pids : PrctlNoNewPrivs(p)
    \/ \E p \in Pids : PrctlSeccomp(p)
    \/ \E p \in Pids : ClosureStart(p)
    \/ \E p \in Pids, d \in ClosureCalls : ClosureSyscall(p, d)
    \/ \E p \in Pids, r \in Rets : ClosureReturn(p, r)
    \/ \E p \in Pids : ClosureThrow(p)
    \/ \E p \in Pids : ChildDestroy(p)
    \/ \E p \in Pids : ChildExit(p)
    \/ \E p \in Pids : OutsideKill(p)

Spec == Init /\ [][Next]_vars

\* A rule list whose program is longer than the kernel accepts, though its
\* length still fits an unsigned short.
LongEntries ==
    [i \in 1 .. (BPF_MAXINSNS \div 8) |-> SeccompWhitelistWithArg(SYS_write, STDOUT_FILENO)]

\* A SeccompChild constructed from main's entries or from the long list.
InitLong ==
    /\ program = "SeccompChild"
    /\ entries \in {MainEntries, LongEntries}
    /\ seccomp_filter = SeccompChild(entries)
    /\ data = NoData
    /\ bpf = Idle
    /\ state = "NOT_STARTED"
    /\ child_ = 0
    /\ caller = "idle"
    /\ procs = << >>
    /\ result = NoResult
    /\ privileged \in BOOLEAN

SpecLong == InitLong /\ [][Next]_vars

(***************************************************************************)
(* Properties of the built program and of its evaluation (SpecFilter).     *)
(***************************************************************************)
RetKill == BPF_STMT(BPF_RET_K, SECCOMP_RET_KILL)

\* The engine has returned a verdict for the call in data.
Decided == bpf # Idle /\ bpf.done

\* The call in d is one the entry e describes.
Matches(e, d) ==
    /\ d.nr = e.sysnr_
    /\ e.type = "SeccompWhitelistWithArg" => d.arg0 = e.arg0_

SomeRuleMatches == \E i \in DOMAIN entries : Matches(entries[i], data)

Built == program = "SeccompChild"

\* The program is the one built from the single entry e.
SingleRule(type) == Built /\ Len(entries) = 1 /\ entries[1].type = type

\* C5: a program built from the single rule SyscallWithArg0(n, v), on the
\* expected architecture: syscall n with first argument v is allowed; syscall n
\* with another first argument is killed at the rule's own deny (the
\* instruction before the last); another syscall number is killed at the
\* program's last instruction.
C5_WithArgSingleRule ==
    (SingleRule("SeccompWhitelistWithArg") /\ Decided /\ data.arch = AUDIT_ARCH_X86_64) =>
        LET e == entries[1] IN
        /\ (data.nr = e.sysnr_ /\ data.arg0 = e.arg0_) =>
                bpf.ret = SECCOMP_RET_ALLOW
        /\ (data.nr = e.sysnr_ /\ data.arg0 # e.arg0_) =>
                bpf.ret = SECCOMP_RET_KILL /\ bpf.pc = Len(seccomp_filter) - 1
        /\ data.nr # e.sysnr_ =>
                bpf.ret = SECCOMP_RET_KILL /\ bpf.pc = Len(seccomp_filter)

\* C5 witness: the number matches and only the high word of the argument
\* differs, and the call was killed.
C5_Witness ==
    /\ SingleRule("SeccompWhitelistWithArg") /\ Decided
    /\ data.arch = AUDIT_ARCH_X86_64
    /\ data.nr = entries[1].sysnr_
    /\ data.arg0 # entries[1].arg0_
    /\ data.arg0 % Word32 = entries[1].arg0_ % Word32
    /\ bpf.ret = SECCOMP_RET_KILL

\* C6: a program built from the single rule SyscallOnly(n), on the expected
\* architecture: syscall n is allowed, every other number is killed at the
\* program's last instruction.
C6_OnlySingleRule ==
    (SingleRule("SeccompWhitelist") /\ Decided /\ data.arch = AUDIT_ARCH_X86_64) =>
        /\ data.nr = entries[1].sysnr_ => bpf.ret = SECCOMP_RET_ALLOW
        /\ data.nr # entries[1].sysnr_ =>
                bpf.ret = SECCOMP_RET_KILL /\ bpf.pc = Len(seccomp_filter)

\* C6 witness: the single rule's number was requested and allowed.
C6_Witness ==
    /\ SingleRule("SeccompWhitelist") /\ Decided
    /\ data.arch = AUDIT_ARCH_X86_64
    /\ data.nr = entries[1].sysnr_
    /\ bpf.ret = SECCOMP_RET_ALLOW

\* C7: for every rule sequence and every input the engine stays inside the
\* program and ends at a return instruction; an input no rule matches ends in
\* kill, and allow is reached only when a rule matches.
C7_EndsInsideAndDeniesUnmatched ==
    (Built /\ bpf # Idle) =>
        /\ bpf.pc \in DOMAIN seccomp_filter
        /\ bpf.done =>
            /\ seccomp_filter[bpf.pc].code = BPF_RET_K
            /\ bpf.ret \in {SECCOMP_RET_KILL, SECCOMP_RET_ALLOW}
            /\ ~SomeRuleMatches => bpf.ret = SECCOMP_RET_KILL
            /\ bpf.ret = SECCOMP_RET_ALLOW =>
                    SomeRuleMatches /\ data.arch = AUDIT_ARCH_X86_64

\* C7 witness: the longest rule list, the expected architecture, no rule
\* matching, and the call killed.
C7_Witness ==
    /\ Built /\ Decided
    /\ Len(entries) = MaxRules
    /\ data.arch = AUDIT_ARCH_X86_64
    /\ ~SomeRuleMatches
    /\ bpf.ret = SECCOMP_RET_KILL

\* C8: whatever the rule sequence, the last instruction of the program the
\* constructor builds is the return-kill instruction.
C8_LastIsDeny ==
    Built => seccomp_filter[Len(seccomp_filter)] = RetKill

\* C8 witness: a program built from the longest rule list whose last entry
\* is a plain whitelist entry (so the entry's own block ends in allow).
C8_Witness ==
    /\ Built
    /\ Len(entries) = MaxRules
    /\ entries[Len(entries)].type = "SeccompWhitelist"
    /\ Len(seccomp_filter) > Len(seccomp_filter_init) + 1

\* C9: on another architecture than the expected one every call is killed,
\* at the architecture check's own kill; on the expected architecture the
\* evaluation passes the architecture comparison and ends in the rule blocks or the final kill.
C9_ArchCheck ==
    Decided =>
        /\ data.arch # AUDIT_ARCH_X86_64 =>
                bpf.ret = SECCOMP_RET_KILL /\ bpf.pc = Len(seccomp_filter_init)
        /\ data.arch = AUDIT_ARCH_X86_64 => bpf.pc > Len(seccomp_filter_init)

\* C9 witness: a call on the 32-bit architecture whose number and argument a
\* rule matches, killed.
C9_Witness ==
    /\ Built /\ Decided
    /\ data.arch = AUDIT_ARCH_I386
    /\ SomeRuleMatches
    /\ bpf.ret = SECCOMP_RET_KILL

(***************************************************************************)
(* Properties of the lifecycle (Spec).                                     *)
(***************************************************************************)
Ended(c) == c.pc = "zombie"

\* C1: in the child, once prctl(PR_SET_NO_NEW_PRIVS) or prctl(PR_SET_SECCOMP)
\* has failed, the process has ended and the closure has not been and is
\* never invoked.
C1_NoClosureAfterFailedPrepare ==
    \A p \in Pids :
        procs[p].failed # "none" => (Ended(procs[p]) /\ ~procs[p].ran)

\* C1 witness: the privilege drop succeeded, the filter installation failed,
\* and the child ended without running the closure.
C1_Witness ==
    \E p \in Pids :
        /\ procs[p].failed = "PR_SET_SECCOMP"
        /\ procs[p].no_new_privs
        /\ Ended(procs[p])
        /\ ~procs[p].ran

\* C2: in every child a filter is installed only after the privilege drop
\* has succeeded, and the closure is started only after the filter has been
\* installed.
C2_DropThenFilterThenClosure ==
    \A p \in Pids :
        /\ procs[p].filter => procs[p].no_new_privs
        /\ procs[p].ran => procs[p].filter

\* C2 witness: a child holding CAP_SYS_ADMIN (so the kernel would install a
\* filter without the privilege drop) runs the closure with both in place.
C2_Witness ==
    \E p \in Pids :
        /\ privileged
        /\ procs[p].ran
        /\ procs[p].filter
        /\ procs[p].no_new_privs

\* The least element of a non-empty set of numbers.
Least(S) == CHOOSE i \in S : \A j \in S : i <= j

\* The rule list allows the call d: the first entry naming d's number allows it.
RulesAllow(d) ==
    LET same == {i \in DOMAIN entries : entries[i].sysnr_ = d.nr} IN
    /\ same # {}
    /\ Matches(entries[Least(same)], d)

\* The closure of c has returned (so every call it made was allowed) and no
\* signal from outside ended the process.
RanToCompletion(c) == Ended(c) /\ c.ret # NoRet /\ c.term.sig # SIGKILL

\* C3 as stated: for every rule list, a child whose preparation succeeded and
\* whose closure made only allowed calls and returned r exits normally with
\* status r, and wait_for_child() returns r.
C3_AsStated ==
    \A p \in Pids :
        RanToCompletion(procs[p]) =>
            /\ procs[p].term.how = "exited"
            /\ procs[p].term.code = procs[p].ret
            /\ result.pid = p => result.value = procs[p].ret

\* C3 amended: if moreover the rule list allows exit_group with first argument
\* r, the child exits normally with status r mod 256, and wait_for_child() on
\* that child returns r mod 256.
C3_ExitStatusIsResultMod256 ==
    \A p \in Pids :
        (RanToCompletion(procs[p]) /\ RulesAllow(Call(SYS_exit_group, procs[p].ret))) =>
            /\ procs[p].term.how = "exited"
            /\ procs[p].term.code = procs[p].ret % 256
            /\ result.pid = p => result.value = procs[p].ret % 256

\* C3 witness: a closure that made an allowed call and returned 257; the
\* child exited with status 1 and wait_for_child() returned 1.
C3_Witness ==
    \E p \in Pids :
        /\ RanToCompletion(procs[p])
        /\ procs[p].called
        /\ procs[p].ret = 257
        /\ procs[p].term.how = "exited"
        /\ result = [pid |-> p, value |-> 1]

\* C4: wait_for_child() returns -1 for a child that a signal ended (the
\* filter's kill included), and for a child that exited it returns the exit
\* code, which lies in 0 .. 255 and so is never -1.
C4_AbnormalMarker ==
    result.pid # 0 =>
        LET c == procs[result.pid] IN
        /\ c.term.how = "signaled" => result.value = -1
        /\ c.term.how = "exited" =>
                (result.value = c.term.code /\ result.value \in 0 .. 255)

\* C4 witness: the filter killed the child and wait_for_child() returned -1.
C4_Witness ==
    /\ result.pid # 0
    /\ procs[result.pid].term = Signaled(SIGSYS)
    /\ procs[result.pid].filter
    /\ result.value = -1

\* NOT_STARTED, STARTED, FINISHED in their order.
Rank(st) ==
    CASE st = "NOT_STARTED" -> 0
      [] st = "STARTED" -> 1
      [] st = "FINISHED" -> 2

\* C10: over any sequence of run(), wait_for_child() and destruction the
\* lifecycle state never moves back: not from FINISHED to STARTED or
\* NOT_STARTED, nor from STARTED to NOT_STARTED.
C10_NoBackTransition == [][Rank(state') >= Rank(state)]_vars

\* C11: one controller creates at most one child process over its lifetime:
\* a run() in the STARTED or FINISHED state creates no further process.
C11_AtMostOneChild == Len(procs) <= 1

\* C12: after the controller is destroyed, no child process it created is
\* left unreaped.
C12_NoUnreapedAfterDestroy ==
    caller = "destroyed" => \A p \in Pids : procs[p].reaped

\* No process is reaped in the step.
NoneReaped == \A p \in Pids : procs'[p].reaped = procs[p].reaped

\* C13: wait_for_child() called when the state is not STARTED fails fast: the
\* call reaches waitpid() only from STARTED; otherwise it aborts the caller,
\* and neither that step nor any later one reaps a process or returns a result.
C13_WaitOutsideStartedFailsFast ==
    [][ /\ (caller = "idle" /\ caller' = "waiting") => state = "STARTED"
        /\ (caller = "idle" /\ caller' = "aborted") =>
                (state # "STARTED" /\ state' = state /\ result' = result /\ NoneReaped)
        /\ caller = "aborted" =>
                (caller' = "aborted" /\ state' = state /\ result' = result /\ NoneReaped)
      ]_vars

\* C13 witness: a second wait_for_child() after a completed one has aborted
\* the caller; the result of the first wait is still the last one returned.
C13_Witness ==
    /\ caller = "aborted"
    /\ state = "FINISHED"
    /\ result.pid = child_
    /\ procs[child_].reaped

\* fork() has failed in the last run().
ForkFailed == child_ = -1

\* C14 as stated: after a failed fork() the caller of run() has control
\* again and the controller is not in the STARTED state.
C14_AsStated == ForkFailed => (caller = "idle" /\ state # "STARTED")

\* C14 amended: a failed fork() is fatal to the calling process: the step
\* that fails creates no child, leaves the state STARTED and ends the
\* process, which does nothing afterwards.
C14_ForkFailureIsFatal ==
    [][ /\ (~ForkFailed /\ ForkFailed') =>
                (caller' = "exited" /\ state' = "STARTED" /\ procs' = procs)
        /\ caller = "exited" =>
                (caller' = "exited" /\ state' = state /\ child_' = child_
                 /\ result' = result /\ Len(procs') = Len(procs) /\ NoneReaped)
      ]_vars

\* C14 witness: the first run() of a controller failed to fork: the process
\* has exited, there is no child, and the state is STARTED.
C14_Witness ==
    /\ ForkFailed
    /\ caller = "exited"
    /\ state = "STARTED"
    /\ procs = << >>

\* C15: a program longer than the kernel's limit is rejected when it is
\* constructed, before any process is created: no child ever exists for it.
C15_OverlongRejectedBeforeFork ==
    Len(seccomp_filter) > BPF_MAXINSNS => procs = << >>

\* What wait_for_child() returns for a child that die_errno ended.
FatalValue == wait_status(RawStatus(die_errno(Forked, "PR_SET_SECCOMP").term, FALSE))

\* C16: the value wait_for_child() returns for a child ended by a failed
\* privilege drop or filter installation is never the value it returns for a
\* child whose preparation succeeded and whose closure ran to completion.
C16_FatalStatusDistinguished ==
    \A p \in Pids :
        ( /\ result.pid = p
          /\ procs[p].failed = "none"
          /\ procs[p].filter
          /\ RanToCompletion(procs[p]) ) => result.value # FatalValue

\* C19: the child never leaves run() into the caller's code: no child
\* process is ever executing what follows run() in the caller.
C19_ChildEndsInsideRun ==
    \A p \in Pids : procs[p].pc # "after_run"

(***************************************************************************)
(* The layout of the built program and its verdicts (SpecFilter).          *)
(***************************************************************************)
\* The index of the first instruction of entry n's block; for n one past the
\* last entry, the index of the final kill.
BlockStart(n) ==
    Len(extend_all(Append(seccomp_filter_init, BPF_STMT(BPF_LD_W_ABS, OFF_nr)),
                   SubSeq(entries, 1, n - 1))) + 1

\* Where the jump at index i goes when the comparison holds, and when not.
TargetTrue(i) == i + 1 + seccomp_filter[i].jt

TargetFalse(i) == i + 1 + seccomp_filter[i].jf

RetAllow == BPF_STMT(BPF_RET_K, SECCOMP_RET_ALLOW)

\* C17: in a program built from any rule sequence, a mismatch of the number
\* in rule n lands on the first instruction of rule n+1's block, or on the
\* final kill when n is the last rule; in a SeccompWhitelistWithArg block a
\* mismatch of the low or of the high word lands on the block's own kill, and
\* a full match on the block's own allow.
C17_JumpsRuleIsolated ==
    Built =>
        \A n \in DOMAIN entries :
            LET s == BlockStart(n)
                next == BlockStart(n + 1)
            IN
            /\ seccomp_filter[s] = BPF_STMT(BPF_LD_W_ABS, OFF_nr)
            /\ seccomp_filter[s + 1].code = BPF_JMP_JEQ_K
            /\ TargetFalse(s + 1) = next
            /\ TargetTrue(s + 1) = s + 2
            /\ n = Len(entries) =>
                    (next = Len(seccomp_filter) /\ seccomp_filter[next] = RetKill)
            /\ n < Len(entries) =>
                    seccomp_filter[next] = BPF_STMT(BPF_LD_W_ABS, OFF_nr)
            /\ entries[n].type = "SeccompWhitelist" =>
                    (s + 2 = next - 1 /\ seccomp_filter[s + 2] = RetAllow)
            /\ entries[n].type = "SeccompWhitelistWithArg" =>
                    /\ seccomp_filter[next - 1] = RetKill
                    /\ seccomp_filter[next - 2] = RetAllow
                    /\ seccomp_filter[s + 3].code = BPF_JMP_JEQ_K
                    /\ seccomp_filter[s + 5].code = BPF_JMP_JEQ_K
                    /\ TargetFalse(s + 3) = next - 1
                    /\ TargetTrue(s + 3) = s + 4
                    /\ TargetFalse(s + 5) = next - 1
                    /\ TargetTrue(s + 5) = next - 2

\* C17 witness: the number did not match the first rule, which compares an
\* argument, and the engine stands on the first instruction of the second
\* rule's block.
C17_Witness ==
    /\ Built
    /\ Len(entries) = 2
    /\ entries[1].type = "SeccompWhitelistWithArg"
    /\ data.arch = AUDIT_ARCH_X86_64
    /\ data.nr # entries[1].sysnr_
    /\ bpf # Idle /\ ~bpf.done
    /\ bpf.A = data.nr
    /\ bpf.pc = BlockStart(2)

\* C18: for every rule sequence and every call on the expected architecture
\* the verdict is that of the first rule, in list order, naming the call's
\* number (allow for SeccompWhitelist; for SeccompWhitelistWithArg allow when
\* the first argument equals its value and kill otherwise), and kill when no
\* rule names the number; later rules with that number are not consulted.
C18_FirstRuleWithNumberDecides ==
    (Built /\ Decided /\ data.arch = AUDIT_ARCH_X86_64) =>
        bpf.ret = IF RulesAllow(data) THEN SECCOMP_RET_ALLOW ELSE SECCOMP_RET_KILL

\* C18 witness: the second rule matches the call, the first names the same
\* number with another argument, and the call was killed.
C18_Witness ==
    /\ Built /\ Decided
    /\ data.arch = AUDIT_ARCH_X86_64
    /\ Len(entries) = 2
    /\ entries[1].sysnr_ = data.nr
    /\ ~Matches(entries[1], data)
    /\ Matches(entries[2], data)
    /\ bpf.ret = SECCOMP_RET_KILL

\* C20: the static program of main.cpp allows a call exactly when the
\* architecture is x86-64 and the number is exit or exit_group, and kills
\* every other call.
C20_StaticFilterVerdict ==
    (program = "sys_filter" /\ Decided) =>
        bpf.ret = IF data.arch = AUDIT_ARCH_X86_64 /\ data.nr \in {SYS_exit, SYS_exit_group}
                      THEN SECCOMP_RET_ALLOW
                      ELSE SECCOMP_RET_KILL

\* C20 witness: exit_group was allowed by the second comparison, with the
\* number loaded once.
C20_Witness ==
    /\ program = "sys_filter" /\ Decided
    /\ data.arch = AUDIT_ARCH_X86_64
    /\ data.nr = SYS_exit_group
    /\ bpf.ret = SECCOMP_RET_ALLOW
    /\ bpf.pc = Len(sys_filter) - 1

====
